---- MODULE Spec2Model ----
(***************************************************************************)
(* Model of the per-container reconciliation of heat-exchanger             *)
(* (src/src/container.rs): Container::init, Container::update,             *)
(* Container::restart and Container::save_state, driven by a watcher       *)
(* process that initialises every configured container and then keeps      *)
(* invoking update passes.  The Steam version oracle, the docker daemon    *)
(* and the process supervisor are the environment: their answers are       *)
(* chosen nondeterministically.                                            *)
(* Config::get (src/src/config.rs) is modelled as a function of its        *)
(* inputs and checked under its own specification, ConfigSpec.             *)
(***************************************************************************)
EXTENDS Integers, Sequences, FiniteSets, TLC

\* ---------------------------------------------------------------- bounds
\* Versions the oracle can publish are 0..MaxVersion.
MaxVersion == 1

\* ------------------------------------------------------------- data model
\* Default::default() of SteamVersion, taken by #[serde(default)] when the
\* field is absent from the configuration or from a state file.
DefaultVersion == 0

Versions == 0..MaxVersion

\* The four UpdateAction variants, by their serde names.
UpdateAction == {"restart", "pull", "build", "custom"}

\* The configured fleet: the containers of the configuration, by name.
Names == {"svc1", "svc2"}

\* The appid each configured container is bound to.
Appid(n) == IF n = "svc1" THEN 10 ELSE 20

\* A Container value: the struct's five fields.
Container(n, a, v, act, opt) ==
    [name |-> n, appid |-> a, current_version |-> v, action |-> act, options |-> opt]

\* Default::default() of the options map, taken by #[serde(default)].
DefaultOptions == "{}"

\* A JSON text: the members written so far, in order, as <<key, value>>
\* pairs, and whether the text is complete (its closing brace is written).
Text(fields, complete) == [fields |-> fields, complete |-> complete]

\* Faulty variant of to_string: current_version is not serialised.
to_string_skip_version(c) ==
    Text(<< <<"name", c.name>>, <<"appid", c.appid>>,
            <<"action", c.action>>, <<"options", c.options>> >>, TRUE)

\* serde_json::to_string(&self): the derived Serialize writes the five
\* fields of the struct in declaration order.
to_string(c) ==
    Text(<< <<"name", c.name>>, <<"appid", c.appid>>,
            <<"current_version", c.current_version>>,
            <<"action", c.action>>, <<"options", c.options>> >>, TRUE)

Has(text, k) == \E j \in 1..Len(text.fields) : text.fields[j][1] = k

Get(text, k) ==
    text.fields[CHOOSE j \in 1..Len(text.fields) : text.fields[j][1] = k][2]

\* serde_json::from_str::<Container>: an incomplete text, or one without
\* name, appid or action, is an error; current_version and options take
\* their defaults when absent.
from_str(text) ==
    IF text.complete /\ Has(text, "name") /\ Has(text, "appid") /\ Has(text, "action")
    THEN [ok |-> TRUE,
          value |-> Container(Get(text, "name"), Get(text, "appid"),
                              IF Has(text, "current_version")
                              THEN Get(text, "current_version") ELSE DefaultVersion,
                              Get(text, "action"),
                              IF Has(text, "options")
                              THEN Get(text, "options") ELSE DefaultOptions)]
    ELSE [ok |-> FALSE,
          value |-> Container("", 0, DefaultVersion, "", DefaultOptions)]

\* The contents of a path of the state directory: no file, a file that
\* cannot be read, or a file holding a text.
NoFile == [kind |-> "absent", text |-> Text(<<>>, FALSE)]
BadFile == [kind |-> "unreadable", text |-> Text(<<>>, FALSE)]
Written(text) == [kind |-> "text", text |-> text]
Json(c) == Written(to_string(c))

\* init gets past lines 55-66: the file is read and decoded.
Decodes(file) == file.kind = "text" /\ from_str(file.text).ok

\* The Container decoded at line 59.
Saved(file) == from_str(file.text).value

\* Answers of the environment.
\* get_game_version: Ok(v) or Err.
OracleErr == [st |-> "Err", v |-> DefaultVersion]
OracleResults == [st : {"Ok"}, v : Versions] \cup {OracleErr}
NoOracle == [st |-> "NotCalled", v |-> DefaultVersion]
\* inspect_container: Err, Ok with no state, Ok with state.running being
\* Some(true), Some(false) or None.
InspectResults == {"Err", "NoState", "RunningTrue", "RunningFalse", "RunningNone"}
\* restart_container: Ok or Err.
RestartResults == {"Ok", "Err"}

VARIABLES
    containers,   \* name -> the in-memory Container of the watcher process
    files,        \* name -> contents of <state_dir>/<name>.json
    inited,       \* name -> init has returned for this container in this process
    process,      \* "running" | "panicked" | "crashed"
    seeded,       \* name -> current_version was assigned in this process (history)
    last,         \* the operation that was executed last (history)
    stable,       \* whether, and at which version, the environment has settled
    config        \* the inputs of Config::get and what it returned

vars == <<containers, files, inited, process, seeded, last, stable, config>>

\* ------------------------------------------------------------ environment
\* The environment is either unconstrained, or settled at a version v:
\* from then on the oracle answers Ok(v), the daemon reports the container
\* as running and restarts succeed.
Unsettled == [on |-> FALSE, v |-> DefaultVersion]
Settled(v) == [on |-> TRUE, v |-> v]

OracleAnswers ==
    IF stable.on THEN {[st |-> "Ok", v |-> stable.v]} ELSE OracleResults

Allowed(answers) ==
    IF stable.on THEN answers \cap {"NotCalled", "RunningTrue", "Ok"} ELSE answers

\* ------------------------------------------------------------ operations
\* fn get_save_path: the key of the state file is the container's name.
get_save_path(self) == self.name

\* Faulty variant of restart: every answer is taken as a failure.
restart_never(r) == FALSE

\* match docker_client.restart_container(..): Err(e) => Err, _ => Ok(()).
restart(r) == r = "Ok"

\* Faulty variant of versions_match: the versions are never taken as equal.
versions_never_match(self, new_version) == FALSE

\* Line 114: if self.current_version == new_version { return }.
versions_match(self, new_version) == self.current_version = new_version

\* Faulty variant of container_running: any reported state counts as running.
container_running_any(i) == TRUE

\* Lines 123-140: state.running == Some(true).
container_running(i) == i = "RunningTrue"

\* Faulty variant of commit_version: a version other than the observed one
\* is recorded.
commit_guess(self, new_version) ==
    [self EXCEPT !.current_version = (new_version + 1) % (MaxVersion + 1)]

\* Faulty variant of commit_version: the new version is dropped.
commit_stale(self, new_version) == self

\* Line 154: self.current_version = new_version.
commit_version(self, new_version) == [self EXCEPT !.current_version = new_version]

\* Faulty variant of oracle_failed: an error is taken as a version.
oracle_never_failed(o) == FALSE

\* Lines 96-111: the oracle's answer is an error, update returns.
oracle_failed(o) == o.st # "Ok"

\* Faulty variant of inspect_failed: a failed inspection is not noticed.
inspect_never_failed(i) == FALSE

\* Lines 124-139: inspect_container answers Err, or Ok without a state.
inspect_failed(i) == i \in {"Err", "NoState"}

\* Faulty variant of after_restart: the version is committed whatever the
\* restart answered.
after_restart_always(self, new_version, r) == commit_version(self, new_version)

\* Lines 153-155: if let Ok(_) = self.restart(..) { current_version = new_version }.
after_restart(self, new_version, r) ==
    IF restart(r) THEN commit_version(self, new_version) ELSE self

\* The result of one call of Container::update on `self`, when the oracle
\* answers o, the daemon's inspect answers i and its restart answers r:
\* the version it started from, the Container afterwards, the external
\* calls made in order, the appid the oracle was asked about (self.appid,
\* 0 when it was not asked), the return path taken and whether the call
\* panicked.
Ret(before, self, calls, o, i, r, outcome, panicked) ==
    [before |-> before.current_version, self |-> self, calls |-> calls,
     queried |-> IF calls = <<>> THEN 0 ELSE before.appid,
     oracle |-> o, inspect |-> i, restart |-> r,
     outcome |-> outcome, panicked |-> panicked]

\* Faulty variant of update: on drift the container is restarted without
\* asking the daemon whether it runs.
update_no_inspect(self, o, i, r) ==
    IF o.st # "Ok"
    THEN Ret(self, self, <<"get_game_version">>, o, "NotCalled", "NotCalled", "OracleFailed", FALSE)
    ELSE IF self.current_version = o.v
    THEN Ret(self, self, <<"get_game_version">>, o, "NotCalled", "NotCalled", "UpToDate", FALSE)
    ELSE Ret(self, [self EXCEPT !.current_version = o.v],
             <<"get_game_version", "restart_container">>, o, "NotCalled", "Ok", "Updated", FALSE)

update(self, o, i, r) ==
    IF oracle_failed(o)
    THEN Ret(self, self, <<"get_game_version">>, o, "NotCalled", "NotCalled", "OracleFailed", FALSE)
    ELSE IF versions_match(self, o.v)
    THEN Ret(self, self, <<"get_game_version">>, o, "NotCalled", "NotCalled", "UpToDate", FALSE)
    ELSE IF inspect_failed(i)
    THEN Ret(self, self, <<"get_game_version", "inspect_container">>, o, i, "NotCalled",
             "InspectFailed", FALSE)
    ELSE IF ~container_running(i)
    THEN Ret(self, self, <<"get_game_version", "inspect_container">>, o, i, "NotCalled",
             "NotRunning", FALSE)
    ELSE IF self.action = "restart"
    THEN Ret(self, after_restart(self, o.v, r),
             <<"get_game_version", "inspect_container", "restart_container">>,
             o, i, r, IF restart(r) THEN "Updated" ELSE "RestartFailed", FALSE)
    ELSE \* _ => todo!()
         Ret(self, self, <<"get_game_version", "inspect_container">>, o, i, "NotCalled",
             "Todo", TRUE)

\* Faulty variant of hydrate: every saved field but the name is taken.
hydrate_all(self, saved) == [saved EXCEPT !.name = self.name]

\* Faulty variant of hydrate: the saved version is not taken.
hydrate_none(self, saved) == self

\* Line 67: self.current_version = saved_version.current_version.
hydrate(self, saved) == [self EXCEPT !.current_version = saved.current_version]

\* Lines 73-85: without a state file, the oracle's version is taken as is.
seed(self, o) ==
    IF oracle_failed(o)
    THEN Ret(self, self, <<"get_game_version">>, o, "NotCalled", "NotCalled", "SeedFailed", FALSE)
    ELSE Ret(self, commit_version(self, o.v), <<"get_game_version">>, o, "NotCalled",
             "NotCalled", "Seeded", FALSE)

\* The result of one call of Container::init on `self` when the state file
\* holds `file`.
init(self, file, o, i, r) ==
    IF file.kind = "absent" THEN seed(self, o)
    ELSE IF ~Decodes(file)
    THEN Ret(self, self, <<>>, NoOracle, "NotCalled", "NotCalled", "Corrupt", TRUE)
    ELSE update(hydrate(self, Saved(file)), o, i, r)

\* The questions a call asks of the environment: inspect_container is
\* called only on drift (line 124), restart_container only for a running
\* container whose action is restart (lines 152-153).
asks_inspect(self, o) == ~oracle_failed(o) /\ ~versions_match(self, o.v)

asks_restart(self, o, i) ==
    /\ asks_inspect(self, o)
    /\ ~inspect_failed(i)
    /\ container_running(i)
    /\ self.action = "restart"

InspectAnswers(self, o) ==
    IF asks_inspect(self, o) THEN Allowed(InspectResults) ELSE {"NotCalled"}

RestartAnswers(self, o, i) ==
    IF asks_restart(self, o, i) THEN Allowed(RestartResults) ELSE {"NotCalled"}

\* init asks them only through its update pass (line 71), which runs on
\* the hydrated Container.
InitInspectAnswers(self, file, o) ==
    IF Decodes(file) THEN InspectAnswers(hydrate(self, Saved(file)), o)
    ELSE {"NotCalled"}

InitRestartAnswers(self, file, o, i) ==
    IF Decodes(file) THEN RestartAnswers(hydrate(self, Saved(file)), o, i)
    ELSE {"NotCalled"}

\* Faulty variant of save_state: the version is left out of the file.
save_state_skip_version(self) == Written(to_string_skip_version(self))

\* serde_json::to_string(&self) written to the save path: the whole struct.
save_state(self) == Written(to_string(self))

\* std::fs::write creates or truncates the file and then writes the text:
\* what the path holds when the process dies during the call is the old
\* contents (the file not opened yet), or the first k members of the new
\* text, complete only when all of it is written.  Two cuts are taken:
\* before the last member, and after the whole text.
Prefix(text, k) == Text(SubSeq(text.fields, 1, k), text.complete /\ k = Len(text.fields))

InterruptedWrites(old, text) ==
    {old} \cup {Written(Prefix(text, k)) : k \in {Len(text.fields) - 1, Len(text.fields)}}

\* ----------------------------------------------------------------- state
\* What `last` holds when no operation has run in this process yet.
Started ==
    [op |-> "start", name |-> "", hydrated |-> FALSE, calls |-> <<>>, queried |-> 0,
     oracle |-> NoOracle, inspect |-> "NotCalled", restart |-> "NotCalled",
     outcome |-> "None", before |-> DefaultVersion, was_seeded |-> FALSE,
     file_before |-> NoFile]

\* The record of an operation on container n with result res.
Done(op, n, res, hyd) ==
    [op |-> op, name |-> n, hydrated |-> hyd, calls |-> res.calls,
     queried |-> res.queried,
     oracle |-> res.oracle, inspect |-> res.inspect, restart |-> res.restart,
     outcome |-> res.outcome,
     before |-> res.before,
     was_seeded |-> seeded[n], file_before |-> files[n]]

\* The containers as deserialised from the configuration.
Configured(n, act) == Container(n, Appid(n), DefaultVersion, act, "opts")

\* A state file written under another configuration: every field but
\* current_version differs from the configured one.
Foreign(act) ==
    Json(Container("old", 99, 1, IF act = "restart" THEN "pull" ELSE "restart", "old"))

\* A state file of an older schema, without current_version and options.
OldSchema(n, act) ==
    Written(Text(<< <<"name", n>>, <<"appid", Appid(n)>>, <<"action", act>> >>, TRUE))

\* State files a state directory can hold at start: none, an unreadable
\* one, one written by save_state in an earlier run of the watcher, one
\* written under another configuration or by an older version.
StartFiles(n, act) ==
    {NoFile, BadFile, Foreign(act), OldSchema(n, act)}
        \cup {Json(Container(n, Appid(n), v, act, "opts")) : v \in Versions}

\* Config::get is not part of the reconciliation: there its inputs are
\* left out.
NoConfig == [phase |-> "none"]

\* The fleets considered: the first container is configured with any of
\* the four actions, the second one with restart, the only action update
\* carries out.
Fleets == {acts \in [Names -> UpdateAction] : acts["svc2"] = "restart"}

Init ==
    /\ \E acts \in Fleets :
          /\ containers = [n \in Names |-> Configured(n, acts[n])]
          /\ files \in {f \in [Names -> UNION {StartFiles(n, acts[n]) : n \in Names}] :
                           \A n \in Names : f[n] \in StartFiles(n, acts[n])}
    /\ inited = [n \in Names |-> FALSE]
    /\ process = "running"
    /\ seeded = [n \in Names |-> FALSE]
    /\ last = Started
    /\ stable = Unsettled
    /\ config = NoConfig

\* ---------------------------------------------------------------- actions
\* The watcher calls init once for every configured container.
ContainerInit(n) ==
    /\ process = "running"
    /\ ~inited[n]
    /\ \E o \in OracleAnswers :
       \E i \in InitInspectAnswers(containers[n], files[n], o) :
       \E r \in InitRestartAnswers(containers[n], files[n], o, i) :
          LET file == files[get_save_path(containers[n])]
              res == init(containers[n], file, o, i, r)
              hyd == Decodes(file)
          IN /\ containers' = [containers EXCEPT ![n] = res.self]
             /\ process' = IF res.panicked THEN "panicked" ELSE "running"
             /\ inited' = [inited EXCEPT ![n] = ~res.panicked]
             /\ seeded' = [seeded EXCEPT ![n] = hyd \/ res.outcome = "Seeded"]
             /\ last' = Done("init", n, res, hyd)
    /\ UNCHANGED <<files, stable, config>>

\* The watcher calls update for a container on every tick.
ContainerUpdate(n) ==
    /\ process = "running"
    /\ inited[n]
    /\ \E o \in OracleAnswers :
       \E i \in InspectAnswers(containers[n], o) :
       \E r \in RestartAnswers(containers[n], o, i) :
          LET res == update(containers[n], o, i, r)
          IN /\ containers' = [containers EXCEPT ![n] = res.self]
             /\ process' = IF res.panicked THEN "panicked" ELSE "running"
             /\ seeded' = [seeded EXCEPT ![n] = @ \/ res.outcome = "Updated"]
             /\ last' = Done("update", n, res, FALSE)
    /\ UNCHANGED <<files, inited, stable, config>>

\* The watcher calls save_state for a container.
ContainerSaveState(n) ==
    /\ process = "running"
    /\ inited[n]
    /\ files' = [files EXCEPT ![get_save_path(containers[n])] = save_state(containers[n])]
    /\ last' = [Started EXCEPT !.op = "save_state", !.name = n,
                               !.before = containers[n].current_version,
                               !.was_seeded = seeded[n], !.file_before = files[n]]
    /\ UNCHANGED <<containers, inited, process, seeded, stable, config>>

\* The watcher process dies while save_state is writing the file.
ContainerSaveStateCrash(n) ==
    /\ process = "running"
    /\ inited[n]
    /\ \E f \in InterruptedWrites(files[n], to_string(containers[n])) :
          files' = [files EXCEPT ![get_save_path(containers[n])] = f]
    /\ process' = "crashed"
    /\ last' = [Started EXCEPT !.op = "save_state_crash", !.name = n,
                               !.before = containers[n].current_version,
                               !.was_seeded = seeded[n], !.file_before = files[n]]
    /\ UNCHANGED <<containers, inited, seeded, stable, config>>

\* The watcher process is started again (after a panic, a kill or a
\* reboot): memory is rebuilt from the configuration, the state directory
\* is what the previous run left.
ProcessStart ==
    /\ containers' = [n \in Names |->
                        [containers[n] EXCEPT !.current_version = DefaultVersion]]
    /\ inited' = [n \in Names |-> FALSE]
    /\ process' = "running"
    /\ seeded' = [n \in Names |-> FALSE]
    /\ last' = Started
    /\ UNCHANGED <<files, stable, config>>

Next ==
    \/ \E n \in Names : ContainerInit(n)
    \/ \E n \in Names : ContainerUpdate(n)
    \/ \E n \in Names : ContainerSaveState(n)
    \/ \E n \in Names : ContainerSaveStateCrash(n)
    \/ ProcessStart

Spec == Init /\ [][Next]_vars

\* ------------------------------------------------- a settling environment
\* The environment settles at version v, once.
Settle(v) ==
    /\ ~stable.on
    /\ process = "running"
    /\ stable' = Settled(v)
    /\ UNCHANGED <<containers, files, inited, process, seeded, last, config>>

\* The watcher process keeps running: it initialises its containers and
\* invokes update passes, while the environment may settle.
LiveNext ==
    \/ \E n \in Names : ContainerInit(n)
    \/ \E n \in Names : ContainerUpdate(n)
    \/ \E v \in Versions : Settle(v)

\* The starts considered there: the first container is configured with
\* restart or pull and has no state file; the state file of the second is
\* absent or was written by save_state for it.
LiveInit ==
    /\ Init
    /\ containers["svc1"].action \in {"restart", "pull"}
    /\ files["svc1"].kind = "absent"
    /\ \/ files["svc2"].kind = "absent"
       \/ \E v \in Versions :
             files["svc2"] = save_state([containers["svc2"] EXCEPT !.current_version = v])

\* The restart container svc2 is initialised, and its update pass is
\* invoked on every tick of the watcher's loop.
LiveSpec ==
    /\ LiveInit
    /\ [][LiveNext]_vars
    /\ WF_vars(ContainerInit("svc2"))
    /\ WF_vars(ContainerUpdate("svc2"))

\* ------------------------------------------------------------ Config::get
\* const DEFAULT_CONFIG_PATH, const DEFAULT_STATE_PATH.
DEFAULT_CONFIG_PATH == "./config.yml"
DEFAULT_STATE_PATH == "./state"

\* An optional string: a command line argument or an environment variable
\* that is absent, or present with a value (which may be empty).
None == [some |-> FALSE, val |-> ""]
Some(x) == [some |-> TRUE, val |-> x]

\* What a path holds: nothing, a text serde_yaml rejects, or a
\* configuration with its steam_api_key and state_directory, each "" when
\* the key is absent from the file (#[serde(default)]).
Missing == [kind |-> "missing", steam_api_key |-> "", state_directory |-> ""]
Invalid == [kind |-> "invalid", steam_api_key |-> "", state_directory |-> ""]
Yaml(key, dir) == [kind |-> "yaml", steam_api_key |-> key, state_directory |-> dir]

ConfigFiles == {Missing, Invalid} \cup {Yaml(k, d) : k \in {"", "filekey"}, d \in {"", "/var/state"}}

\* The inputs of Config::get: the first argument, the three environment
\* variables and the contents of the paths it can be pointed at.
ConfigInputs ==
    [arg : {None, Some("cli.yml")},
     UPDATER_CONFIG_PATH : {None, Some("env.yml")},
     UPDATER_STEAM_API_KEY : {None, Some(""), Some("envkey")},
     UPDATER_STATE_PATH : {None, Some("/env/state")},
     disk : [{"cli.yml", "env.yml", DEFAULT_CONFIG_PATH} -> ConfigFiles]]

\* Lines 56-65: the argument, else the environment, else the default.
config_path(in) ==
    IF in.arg.some THEN in.arg.val
    ELSE IF in.UPDATER_CONFIG_PATH.some THEN in.UPDATER_CONFIG_PATH.val
    ELSE DEFAULT_CONFIG_PATH

ConfigErr(why) == [ok |-> FALSE, err |-> why, steam_api_key |-> "", state_directory |-> ""]
ConfigOk(key, dir) == [ok |-> TRUE, err |-> "", steam_api_key |-> key, state_directory |-> dir]

\* Lines 75-87: the key of the file unless it is "", else the value of
\* UPDATER_STEAM_API_KEY when env::var returns Ok, else nothing (an error).
api_key(file, env) ==
    IF file.steam_api_key = ""
    THEN (IF env.some THEN Some(env.val) ELSE None)
    ELSE Some(file.steam_api_key)

\* Lines 90-103: the directory of the file unless it is "", else
\* UPDATER_STATE_PATH, else the default.
state_directory(file, env) ==
    IF file.state_directory # "" THEN file.state_directory
    ELSE IF env.some THEN env.val
    ELSE DEFAULT_STATE_PATH

\* Config::get.
get(in) ==
    LET file == in.disk[config_path(in)]
        key == api_key(file, in.UPDATER_STEAM_API_KEY)
    IN IF file.kind = "missing" THEN ConfigErr("not found")
       ELSE IF file.kind = "invalid" THEN ConfigErr("deserialise")
       ELSE IF ~key.some THEN ConfigErr("no api key")
       ELSE ConfigOk(key.val, state_directory(file, in.UPDATER_STATE_PATH))

\* The watcher has not started its containers yet: Config::get runs first.
ConfigInit ==
    /\ containers = [n \in Names |-> Configured(n, "restart")]
    /\ files = [n \in Names |-> NoFile]
    /\ inited = [n \in Names |-> FALSE]
    /\ process = "running"
    /\ seeded = [n \in Names |-> FALSE]
    /\ last = Started
    /\ stable = Unsettled
    /\ \E in \in ConfigInputs : config = [phase |-> "called", in |-> in, out |-> ConfigErr("")]

ConfigGet ==
    /\ config.phase = "called"
    /\ config' = [config EXCEPT !.phase = "returned", !.out = get(config.in)]
    /\ UNCHANGED <<containers, files, inited, process, seeded, last, stable>>

ConfigSpec == ConfigInit /\ [][ConfigGet]_vars

\* ----------------------------------------------------------------- claims
\* The last operation was an update pass: a call of update by the watcher,
\* or the one init runs after hydrating from a state file.
UpdatePass == last.op = "update" \/ (last.op = "init" /\ last.hydrated)

Calls(f) == Cardinality({k \in 1..Len(last.calls) : last.calls[k] = f})

Current(n) == containers[n].current_version

Persisted(n, v) == Decodes(files[n]) /\ Saved(files[n]).current_version = v

\* C1: whenever an update pass ends by dispatching the action successfully,
\* current_version afterwards equals the version the oracle returned in
\* that same pass.
C1_UpdatedCommitsObservedVersion ==
    (UpdatePass /\ last.outcome = "Updated") =>
        /\ last.oracle.st = "Ok"
        /\ last.inspect = "RunningTrue"
        /\ last.restart = "Ok"
        /\ last.oracle.v # last.before
        /\ Current(last.name) = last.oracle.v

\* C1 witness: a second successful pass, from a version an earlier pass set.
C1_Witness ==
    /\ last.op = "update"
    /\ last.outcome = "Updated"
    /\ last.before = 1
    /\ Current(last.name) = 0

\* C2: at the end of every update pass in which the action succeeded, the
\* container's state file holds a current_version equal to the one in memory.
C2_UpdatedIsPersisted ==
    (UpdatePass /\ last.outcome = "Updated") =>
        Persisted(last.name, Current(last.name))

\* C3: when init finds no state file and the oracle returns v, current_version
\* is v and a state file recording v exists when init returns.
C3_SeedIsPersisted ==
    (last.op = "init" /\ last.file_before.kind = "absent" /\ last.oracle.st = "Ok") =>
        /\ Current(last.name) = last.oracle.v
        /\ Persisted(last.name, last.oracle.v)

\* C4: when init finds a state file that cannot be read or decoded, the
\* watcher process keeps running and the other containers can still be
\* initialised and updated.
C4_CorruptSnapshotConfined ==
    (last.op = "init" /\ last.file_before.kind # "absent" /\ ~Decodes(last.file_before)) =>
        /\ process = "running"
        /\ \A m \in Names \ {last.name} :
              IF inited[m] THEN ENABLED ContainerUpdate(m) ELSE ENABLED ContainerInit(m)

\* C5: for every action kind, an update pass that finds drift on a running
\* container ends as Updated or Failed and the watcher process keeps running.
C5_EveryActionCompletes ==
    (UpdatePass /\ last.inspect = "RunningTrue") =>
        /\ last.outcome \in {"Updated", "RestartFailed"}
        /\ process = "running"

\* C6: if the runtime reports the container as not running during a pass
\* that found drift, current_version is unchanged, no restart is invoked
\* and nothing is persisted.
C6_NotRunningNoChange ==
    (UpdatePass /\ last.inspect \in {"RunningFalse", "RunningNone"}) =>
        /\ Current(last.name) = last.before
        /\ last.restart = "NotCalled"
        /\ Calls("restart_container") = 0
        /\ files[last.name] = last.file_before

\* C6 witness: drift found on a stopped container.
C6_Witness ==
    /\ last.op = "update"
    /\ last.inspect = "RunningFalse"
    /\ last.oracle.st = "Ok"
    /\ last.oracle.v # last.before
    /\ last.outcome = "NotRunning"

\* C7: if the oracle query of an update pass fails, current_version is
\* unchanged, neither inspect nor restart is called and the state file is
\* not written.
C7_OracleFailureIsNoOp ==
    (UpdatePass /\ last.oracle.st = "Err") =>
        /\ Current(last.name) = last.before
        /\ last.calls = <<"get_game_version">>
        /\ last.inspect = "NotCalled"
        /\ last.restart = "NotCalled"
        /\ files[last.name] = last.file_before

\* C7 witness: the oracle fails for a container that tracks a version and
\* has a state file.
C7_Witness ==
    /\ last.op = "update"
    /\ last.oracle.st = "Err"
    /\ last.before = 1
    /\ Persisted(last.name, 1)

\* C8: for a container whose version was never assigned (no state file, the
\* seeding query failed), no update pass dispatches restart.
C8_NoActionBeforeSeed ==
    (last.op = "update" /\ ~last.was_seeded) =>
        /\ last.restart = "NotCalled"
        /\ Calls("restart_container") = 0

\* C9: an update pass in which the oracle returns the version equal to
\* current_version leaves current_version unchanged, calls neither inspect
\* nor restart and does not write the state file.
C9_SteadyStateIsNoOp ==
    (UpdatePass /\ last.oracle.st = "Ok" /\ last.oracle.v = last.before) =>
        /\ Current(last.name) = last.before
        /\ last.calls = <<"get_game_version">>
        /\ last.inspect = "NotCalled"
        /\ last.restart = "NotCalled"
        /\ files[last.name] = last.file_before

\* C9 witness: the oracle repeats the tracked version of a container.
C9_Witness ==
    /\ last.op = "update"
    /\ last.outcome = "UpToDate"
    /\ last.oracle.v = 1
    /\ Current(last.name) = 1

\* C10: when init finds a valid state file recording s, it runs exactly one
\* update pass from s, and afterwards current_version is s unless that pass
\* found drift on a running container and the restart succeeded.
C10_HydrateThenOnePass ==
    (last.op = "init" /\ Decodes(last.file_before)) =>
        LET s == Saved(last.file_before).current_version
        IN /\ last.before = s
           /\ Calls("get_game_version") = 1
           /\ \/ Current(last.name) = s
              \/ /\ last.oracle.st = "Ok"
                 /\ last.oracle.v # s
                 /\ last.inspect = "RunningTrue"
                 /\ last.restart = "Ok"
                 /\ Current(last.name) = last.oracle.v

\* C10 witness: init hydrates 1 and the oracle reports another version for a
\* stopped container.
C10_Witness ==
    /\ last.op = "init"
    /\ Decodes(last.file_before)
    /\ Saved(last.file_before).current_version = 1
    /\ last.oracle.st = "Ok"
    /\ last.oracle.v = 0
    /\ last.outcome = "NotRunning"
    /\ Current(last.name) = 1

\* C11 as stated: when the restart fails, current_version is unchanged and
\* nothing is persisted, and the next update pass of the container in which
\* the oracle reports a version different from current_version dispatches
\* the restart again.
C11_FailedActionRetriedOnDrift ==
    /\ [](last.outcome = "RestartFailed" =>
             /\ Current(last.name) = last.before
             /\ files[last.name] = last.file_before)
    /\ [][(/\ last.outcome = "RestartFailed"
           /\ last'.op = "update"
           /\ last'.name = last.name
           /\ last'.oracle.st = "Ok"
           /\ last'.oracle.v # last'.before)
          => last'.restart # "NotCalled"]_vars

\* C11 amended: the same, for the next update pass in which the oracle
\* reports a different version and the runtime reports the container as
\* running; that pass starts from the same prior version.
C11_FailedActionRetriedWhenRunning ==
    /\ [](last.outcome = "RestartFailed" =>
             /\ Current(last.name) = last.before
             /\ files[last.name] = last.file_before)
    /\ [][(/\ last.outcome = "RestartFailed"
           /\ last'.op = "update"
           /\ last'.name = last.name
           /\ last'.oracle.st = "Ok"
           /\ last'.oracle.v # last'.before)
          => /\ last'.before = last.before
             /\ last'.inspect # "NotCalled"
             /\ (last'.inspect = "RunningTrue" =>
                    /\ last'.restart # "NotCalled"
                    /\ last'.calls[Len(last'.calls)] = "restart_container")]_vars

\* C11 witness: a restart that failed on drift from version 1 to 0.
C11_Witness ==
    /\ last.op = "update"
    /\ last.outcome = "RestartFailed"
    /\ last.before = 1
    /\ last.oracle.v = 0
    /\ Current(last.name) = 1

\* C12: if the liveness query of an update pass fails (an error, or no
\* state returned), current_version is unchanged, no action is dispatched,
\* nothing is persisted, and the pass leaves by another path than the skip
\* of a container that is not running.
C12_InspectFailureIsNoOp ==
    (UpdatePass /\ last.inspect \in {"Err", "NoState"}) =>
        /\ Current(last.name) = last.before
        /\ last.restart = "NotCalled"
        /\ Calls("restart_container") = 0
        /\ files[last.name] = last.file_before
        /\ last.outcome = "InspectFailed"
        /\ last.outcome # "NotRunning"

\* C12 witness: the daemon returns no state for a container on drift.
C12_Witness ==
    /\ last.op = "update"
    /\ last.inspect = "NoState"
    /\ last.oracle.st = "Ok"
    /\ last.oracle.v # last.before

\* C13: when the watcher dies during save_state, the state file holds
\* either the complete previous contents or the complete new state.
C13_NoPartialWrite ==
    last.op = "save_state_crash" =>
        \/ files[last.name] = last.file_before
        \/ files[last.name] = save_state(containers[last.name])

\* C14: save_state followed by init for a container of the same name and
\* state directory starts the initial update pass from the saved
\* current_version (seen here with a pass that stops at a failed oracle
\* query, which changes nothing).
C14_SaveLoadRoundTrip ==
    \A n \in Names :
        LET file == save_state(containers[n])
            fresh == Configured(n, containers[n].action)
            loaded == init(fresh, file, OracleErr, "NotCalled", "NotCalled")
        IN /\ Decodes(file)
           /\ loaded.outcome = "OracleFailed"
           /\ loaded.before = containers[n].current_version
           /\ loaded.self.current_version = containers[n].current_version

\* C14 witness: a file written by save_state for version 1 in an earlier
\* run of the watcher is loaded by init.
C14_Witness ==
    /\ last.op = "init"
    /\ \E act \in UpdateAction :
          last.file_before = save_state(Container(last.name, Appid(last.name), 1, act, "opts"))
    /\ last.before = 1
    /\ containers[last.name].current_version = 1

\* C15: every change of a container's current_version made after its
\* descriptor is loaded sets it to the value hydrated from the container's
\* own state file, during init, or to a value the oracle returned for this
\* container's appid in the same call.
C15_OnlyHydratedOrOracleValues ==
    [][\A n \in Names :
          containers'[n].current_version # containers[n].current_version =>
             \/ last'.op = "start"
             \/ /\ last'.name = n
                /\ last'.op = "init"
                /\ last'.file_before = files[get_save_path(containers[n])]
                /\ Decodes(last'.file_before)
                /\ containers'[n].current_version = Saved(last'.file_before).current_version
             \/ /\ last'.name = n
                /\ last'.op \in {"init", "update"}
                /\ last'.oracle.st = "Ok"
                /\ last'.queried = Appid(n)
                /\ containers'[n].current_version = last'.oracle.v]_vars

\* C15 witness: init seeds version 1 from the oracle's answer for appid 10.
C15_Witness ==
    /\ last.op = "init"
    /\ last.name = "svc1"
    /\ last.outcome = "Seeded"
    /\ last.queried = 10
    /\ last.oracle.v = 1
    /\ Current("svc1") = 1

\* C16: name, appid, action and options of a container never change, and
\* name, appid and options are the configured ones, also when init reads a
\* state file that records other values.
C16_DescriptorIsImmutable ==
    /\ [](\A n \in Names :
             /\ containers[n].name = n
             /\ containers[n].appid = Appid(n)
             /\ containers[n].options = "opts")
    /\ [][\A n \in Names :
             /\ containers'[n].name = containers[n].name
             /\ containers'[n].appid = containers[n].appid
             /\ containers'[n].action = containers[n].action
             /\ containers'[n].options = containers[n].options]_vars

\* C16 witness: init has read a state file written under another
\* configuration and has taken its version.
C16_Witness ==
    /\ last.op = "init"
    /\ last.hydrated
    /\ last.file_before = Foreign(containers[last.name].action)
    /\ Saved(last.file_before).action # containers[last.name].action
    /\ last.outcome = "OracleFailed"
    /\ Current(last.name) = 1

\* C18: an update pass queries the oracle exactly once, first; it calls
\* restart at most once, last, and only after the oracle answered with a
\* version different from current_version and inspect reported running.
C18_CallOrder ==
    UpdatePass =>
        /\ Calls("get_game_version") = 1
        /\ last.calls[1] = "get_game_version"
        /\ Calls("inspect_container") <= 1
        /\ Calls("restart_container") <= 1
        /\ Calls("restart_container") = 1 =>
              /\ last.calls = <<"get_game_version", "inspect_container", "restart_container">>
              /\ last.oracle.st = "Ok"
              /\ last.oracle.v # last.before
              /\ last.inspect = "RunningTrue"
        /\ (last.restart # "NotCalled") = (Calls("restart_container") = 1)
        /\ (last.inspect # "NotCalled") = (Calls("inspect_container") = 1)

\* C18 witness: a pass that went through the three calls and whose restart
\* failed.
C18_Witness ==
    /\ last.op = "update"
    /\ last.calls = <<"get_game_version", "inspect_container", "restart_container">>
    /\ last.restart = "Err"

\* C17: for the restart container svc2 of a watcher that keeps running, once the
\* environment has settled at v (the oracle answers v, the container is
\* reported running, restarts succeed), current_version eventually equals
\* v; from then on it stays v and no further restart is dispatched.
C17_EventuallyConsistent ==
    /\ stable.on ~> (process # "running" \/ (inited["svc2"] /\ Current("svc2") = stable.v))
    /\ [][\A n \in {"svc2"} :
             (stable.on /\ inited[n] /\ Current(n) = stable.v) =>
                /\ containers'[n].current_version = stable.v
                /\ (last' # last /\ last'.name = n) =>
                      (last'.restart = "NotCalled" /\ last'.outcome = "UpToDate")]_vars

\* C17 witness: after the environment settled at 1, a pass restarted the
\* container and recorded 1.
C17_Witness ==
    /\ stable = Settled(1)
    /\ last.op = "update"
    /\ last.name = "svc2"
    /\ last.outcome = "Updated"
    /\ Current("svc2") = 1

\* What Config::get was given: the file it read and the environment's key.
ConfigFile == config.in.disk[config_path(config.in)]
EnvKey == config.in.UPDATER_STEAM_API_KEY

\* C19: a non-empty key of the configuration file is used whatever the
\* environment holds; with an empty one the value of UPDATER_STEAM_API_KEY
\* is used; with neither, get returns an error; so no Config returned as Ok
\* has an empty key.
C19_ApiKeyResolution ==
    (config.phase = "returned" /\ ConfigFile.kind = "yaml") =>
        /\ ConfigFile.steam_api_key # "" =>
              (config.out.ok /\ config.out.steam_api_key = ConfigFile.steam_api_key)
        /\ (ConfigFile.steam_api_key = "" /\ EnvKey.some) =>
              (config.out.ok /\ config.out.steam_api_key = EnvKey.val)
        /\ (ConfigFile.steam_api_key = "" /\ ~EnvKey.some) => ~config.out.ok
        /\ config.out.ok => config.out.steam_api_key # ""

====
